---- MODULE Spec2Model ----
(***************************************************************************)
(* A model of the lead-generation chat dashboard backend: the three        *)
(* relational tables the route handlers write (chat messages, messenger    *)
(* sessions, leads), the in-memory completion notification list, and the   *)
(* handlers of routes.py and ai_lead_extractor.py that change them.        *)
(*                                                                         *)
(* Strings are atomic values; the Python string tests the handlers make    *)
(* (str.lower, "in", str.startswith, str.strip) are modelled by tables     *)
(* over the strings the model uses.  Time is a clock in hours.             *)
(***************************************************************************)
EXTENDS Integers, Sequences, FiniteSets, TLC

\* ---------------------------------------------------------------- bounds
MaxMsgs == 2
MaxTicks == 3
MaxPk == 3
MaxRows == 26
MaxPage == 4
MaxPerPage == 11
MaxErrors == 1
MaxPolls == 2
MaxWorkers == 2

\* ------------------------------------------------------ program constants
RecencyHours == 12
OrphanHours == 24

\* one step of the clock: half the recency window, so that a message is seen
\* inside the window, exactly on its edge and outside it
TickHours == RecencyHours \div 2
MaxNotifications == 50

NULL == "NULL"
NoUser == "anonymous"

SessionIds == {"abc-123", "Test_42"}
Roles == {"user", "ai"}
Messages == {"", "hello", "Call you Within 24 Hours"}
Sources == {"web_chat", "messenger"}
LeadFields == {"full_name", "company_name", "email"}

\* ----------------------------------------------------- string primitives
\* str.lower() over the strings of the model
Lower(s) ==
  CASE s = "Call you Within 24 Hours" -> "call you within 24 hours"
    [] s = "Test_42" -> "test_42"
    [] OTHER -> s

\* `sub in s` over the strings of the model
Contains(sub, s) ==
  \/ sub = s
  \/ <<sub, s>> \in { <<"within 24 hours", "call you within 24 hours">>,
                     <<"test", "test_42">>,
                     <<"@", "john@x.com">>,
                     <<"@", "jane@x.com">> }

\* s.startswith(prefix) over the strings of the model
StartsWith(s, prefix) ==
  \/ s = prefix
  \/ <<s, prefix>> \in { <<"Test_42", "Test_">>, <<"session_1", "session_">> }

\* f"{first_name} {last_name}".strip()
StripJoin(first_name, last_name) ==
  IF first_name = "" THEN last_name
  ELSE IF last_name = "" THEN first_name
  ELSE first_name \o " " \o last_name

\* ------------------------------------------------------------------ state
VARIABLES
  msgs,                      \* chat_sessions_for_dashboard rows, in insertion order
  sessions,                  \* messenger_sessions rows
  leads,                     \* leads rows, grouped by session_id
  nextId,                    \* next messenger_sessions primary key
  now,                       \* datetime.utcnow(), in hours
  completion_notifications,  \* app.completion_notifications
  pendingDelete,             \* a delete_testing_session request past its commit
  errors,                    \* errors rows, in insertion order
  polls,                     \* the get_completion_notifications request of each thread
  appended,                  \* every notification handle_chat_message appended, in order
  txns,                      \* the open database transaction of each request thread
  cleanup,                   \* the run of process_missed_sessions
  resp                       \* the last response returned by a handler

vars == <<msgs, sessions, leads, nextId, now, completion_notifications,
          pendingDelete, errors, polls, appended, txns, cleanup,
          resp>>

\* the state of the completion notification polls
pollvars == <<polls, appended>>

\* the threads that serve a get_completion_notifications request
Pollers == 1..MaxPolls

\* a thread that has not entered get_completion_notifications
IdlePoll == [pc |-> "idle", notifications |-> <<>>]

\* process_missed_sessions before it is started: pc is "idle", then "loop"
\* while sessions_to_process is walked, then "done"; found is what
\* find_sessions_needing_processing returned, todo the part of it the loop
\* has not reached, attempts the calls of process_session_for_lead_extraction
\* made for each session id, results what they returned
IdleCleanup ==
  [pc |-> "idle", found |-> {}, todo |-> <<>>,
   attempts |-> [sid \in SessionIds |-> 0],
   results |-> [sid \in SessionIds |-> "none"]]

\* the threads that serve requests writing to the database
Workers == 1..MaxWorkers

\* a thread that serves no request.  In a request: op is the handler, pc is
\* "reading" before the Lead query and "ready" before the commit, saw_session
\* and saw_lead are what the MessengerSession and Lead queries returned, and
\* messages are the chat rows the handler read.
IdleTxn == [op |-> "none", pc |-> "idle", sid |-> NULL, saw_session |-> FALSE,
            saw_lead |-> FALSE, messages |-> <<>>]

\* no delete_testing_session request is between its commit and its response
NoDelete == [id |-> 0, session_id |-> NULL, user |-> NoUser]

\* resp is the response of the request that made the last step, and NoResp
\* when the last step was not the end of a request.
NoResp == [op |-> "none", code |-> 0, sid |-> NULL, info |-> <<>>]

Init ==
  /\ msgs = <<>>
  /\ sessions = {}
  /\ leads = [s \in SessionIds |-> <<>>]
  /\ nextId = 1
  /\ now = 0
  /\ completion_notifications = <<>>
  /\ pendingDelete = NoDelete
  /\ errors = <<>>
  /\ polls = [p \in Pollers |-> IdlePoll]
  /\ appended = <<>>
  /\ txns = [t \in Workers |-> IdleTxn]
  /\ cleanup = IdleCleanup
  /\ resp = NoResp

\* ---------------------------------------------------------------- queries
\* ChatSessionForDashboard.query.filter_by(session_id=...).order_by(dateTime).all()
MessagesOf(m, session_id) == SelectSeq(m, LAMBDA r: r.session_id = session_id)

\* MessengerSession.query.filter_by(session_id=...)
SessionsOf(session_id) == {s \in sessions : s.session_id = session_id}

\* .first() of the above: a row when there is one
FirstSession(session_id) == CHOOSE s \in SessionsOf(session_id) : TRUE

\* MessengerSession.query.get(pk)
SessionByPk(pk) == {s \in sessions : s.id = pk}

\* Lead(session_id=...) with every other column NULL
EmptyLead == [full_name |-> NULL, company_name |-> NULL, email |-> NULL]

\* MessengerSession(...) with the column defaults (conversation_start, the
\* summary and the audit timestamps are not read by any handler modelled here)
NewSession(pk, session_id, last, count, source, engaged, completion) ==
  [id |-> pk, session_id |-> session_id,
   last_message_time |-> last, message_count |-> count,
   session_source |-> source, ai_engaged |-> engaged,
   completion_status |-> completion, status |-> "active",
   qa_status |-> "unchecked", qa_notes |-> NULL, dev_feedback |-> NULL,
   webhook_delivered |-> FALSE, webhook_response |-> NULL]

\* A database state: the three tables and the primary key sequence.
Db(m, s, l, n) == [msgs |-> m, sessions |-> s, leads |-> l, nextId |-> n]

CurrentDb == Db(msgs, sessions, leads, nextId)

\* the database variables take the values of db
Commit(db) ==
  /\ msgs' = db.msgs
  /\ sessions' = db.sessions
  /\ leads' = db.leads
  /\ nextId' = db.nextId

\* a rollback that keeps the rows the failed transaction had flushed
Rollback_KeepFlushed(committed, pending) == pending

\* db.session.rollback(): the pending changes of the transaction are
\* discarded and the database is as it was committed
Rollback(committed, pending) == committed

\* ------------------------------------------------------------------ clock
Tick ==
  /\ now + TickHours <= MaxTicks * TickHours
  /\ now' = now + TickHours
  /\ resp' = NoResp
  /\ UNCHANGED <<msgs, sessions, leads, nextId, completion_notifications,
                 pendingDelete, errors, pollvars, txns, cleanup>>

\* ------------------------------------------------- POST /api/chat-message
\* 'within 24 hours' in message.lower()
HasCompletionMarker(messageStr) ==
  messageStr # NULL /\ messageStr # "" /\ Contains("within 24 hours", Lower(messageStr))

\* NewLeadName with the placeholder of ensure_messenger_session_exists
NewLeadName_Unknown(first_name, last_name) ==
  IF first_name # "" \/ last_name # "" THEN StripJoin(first_name, last_name)
  ELSE "Unknown"

\* the full_name of the lead created with a new web chat session
NewLeadName(first_name, last_name) ==
  IF first_name # "" \/ last_name # "" THEN StripJoin(first_name, last_name)
  ELSE "Web Chat User"

\* contact_id if '@' in contact_id else <otherwise>
EmailOf(contact_id, otherwise) ==
  IF Contains("@", contact_id) THEN contact_id ELSE otherwise

\* a truncation that keeps the oldest entries
KeepLast_Oldest(list, n) ==
  IF Len(list) > n THEN SubSeq(list, 1, n) ELSE list

\* app.completion_notifications[-50:]
KeepLast(list, n) ==
  IF Len(list) > n THEN SubSeq(list, Len(list) - n + 1, Len(list)) ELSE list

\* the message_count written on an existing session: the count query runs
\* after the new row was autoflushed, and the handler adds one to it
CountAfterInsert(m, session_id) == Len(MessagesOf(m, session_id)) + 1

\* the completion_status an existing session has after one more message
StatusAfterMessage(current, user_type, message) ==
  IF user_type = "ai" /\ HasCompletionMarker(message) THEN "complete" ELSE current

\* the completion_status a session created by the first message gets
StatusOfFirstMessage(user_type, message) == "in_progress"

\* info = <<firstName, lastName, contactID of the request, session created>>
ChatResp(code, session_id, first_name, last_name, contact_id, created) ==
  [op |-> "chat", code |-> code, sid |-> session_id,
   info |-> <<first_name, last_name, contact_id, created>>]

HandleChatMessage(session_id, message, user_type, first_name, last_name, contact_id, session_source) ==
  LET chat_message == [session_id |-> session_id, dateTime |-> now,
                       userAi |-> user_type, messageStr |-> message]
      flushed == Append(msgs, chat_message)
  IN
  /\ IF session_id = "" \/ message = ""
     THEN \* 400: nothing was added to the database session
          /\ resp' = ChatResp(400, session_id, first_name, last_name, contact_id, FALSE)
          /\ UNCHANGED <<msgs, sessions, leads, nextId, completion_notifications,
                         appended>>
     ELSE IF SessionsOf(session_id) = {}
     THEN \* first message of an unseen session: session and lead are inserted
          LET new_lead == [EmptyLead EXCEPT
                             !.full_name = NewLeadName(first_name, last_name),
                             !.email = EmailOf(contact_id, NULL)]
              pending == Db(flushed,
                            sessions \cup
                              {NewSession(nextId, session_id, now, 1, session_source,
                                          user_type = "ai",
                                          StatusOfFirstMessage(user_type, message))},
                            [leads EXCEPT ![session_id] = Append(@, new_lead)],
                            nextId + 1)
          IN
          IF leads[session_id] # <<>>
          THEN \* leads.session_id is unique: the flush raises, rollback, 500
               /\ Commit(Rollback(CurrentDb, pending))
               /\ resp' = ChatResp(500, session_id, first_name, last_name, contact_id, FALSE)
               /\ UNCHANGED <<completion_notifications, appended>>
          ELSE /\ Len(msgs) < MaxMsgs
               /\ nextId <= MaxPk
               /\ Commit(pending)
               /\ resp' = ChatResp(200, session_id, first_name, last_name, contact_id, TRUE)
               /\ UNCHANGED <<completion_notifications, appended>>
     ELSE \* a later message: the session row is updated in place
          LET s == FirstSession(session_id)
              completes == user_type = "ai" /\ HasCompletionMarker(message)
              s2 == [s EXCEPT
                      !.last_message_time = now,
                      !.message_count = CountAfterInsert(flushed, session_id),
                      !.ai_engaged = (s.ai_engaged \/ user_type = "ai"),
                      !.completion_status =
                          StatusAfterMessage(s.completion_status, user_type, message)]
              lead == IF leads[session_id] = <<>> THEN EmptyLead
                      ELSE Head(leads[session_id])
              named == [lead EXCEPT !.full_name =
                          IF first_name # "" \/ last_name # ""
                          THEN StripJoin(first_name, last_name) ELSE @]
              mailed == [named EXCEPT !.email =
                          IF contact_id # "" THEN EmailOf(contact_id, @) ELSE @]
          IN
          /\ Len(msgs) < MaxMsgs
          /\ msgs' = flushed
          /\ sessions' = (sessions \ {s}) \cup {s2}
          /\ leads' = [leads EXCEPT ![session_id] =
                         IF @ = <<>> THEN <<mailed>> ELSE <<mailed>> \o Tail(@)]
          /\ completion_notifications' =
               IF completes
               THEN KeepLast(Append(completion_notifications,
                        [session_id |-> session_id, timestamp |-> now]),
                        MaxNotifications)
               ELSE completion_notifications
          /\ appended' =
               IF completes
               THEN Append(appended, [session_id |-> session_id, timestamp |-> now])
               ELSE appended
          /\ resp' = ChatResp(200, session_id, first_name, last_name, contact_id, FALSE)
          /\ UNCHANGED nextId
  /\ UNCHANGED <<now, pendingDelete, errors, polls, txns, cleanup>>

\* ------------------------------------------------ completion heuristics
\* any(msg.userAi == 'ai' for msg in messages)
AiEngaged(messages) == \E i \in 1..Len(messages) : messages[i].userAi = "ai"

\* any(msg.messageStr and 'within 24 hours' in msg.messageStr.lower() ...)
HasBookingUrl(messages) ==
  \E i \in 1..Len(messages) : HasCompletionMarker(messages[i].messageStr)

\* the recency test with the edge of the window counted as recent
WithinRecency_Inclusive(last_message_time, utcnow) ==
  last_message_time >= utcnow - RecencyHours

\* last_message_utc > (datetime.utcnow() - timedelta(hours=12))
WithinRecency(last_message_time, utcnow) == last_message_time > utcnow - RecencyHours

\* the completion_status ensure_messenger_session_exists gives a new session
EnsureCompletionStatus(messages, utcnow) ==
  IF HasBookingUrl(messages) THEN "complete"
  ELSE IF AiEngaged(messages)
       THEN IF WithinRecency(messages[Len(messages)].dateTime, utcnow)
            THEN "in_progress" ELSE "incomplete"
       ELSE "incomplete"

\* the completion_status sync_messenger_session_data writes on an existing session
SyncCompletionStatus(messages, utcnow) ==
  IF HasBookingUrl(messages) THEN "complete" ELSE "in_progress"

\* ensure_messenger_session_exists(session_id) run on database db
EnsureMessengerSessionExists(db, session_id) ==
  LET messages == MessagesOf(db.msgs, session_id)
      existing == {s \in db.sessions : s.session_id = session_id}
  IN IF existing # {} THEN db
     ELSE IF messages = <<>> THEN db
     ELSE [db EXCEPT
            !.sessions = @ \cup
               {NewSession(db.nextId, session_id,
                           messages[Len(messages)].dateTime, Len(messages),
                           "messenger", AiEngaged(messages),
                           EnsureCompletionStatus(messages, now))},
            !.nextId = @ + 1,
            !.leads = [@ EXCEPT ![session_id] =
                         IF @ = <<>>
                         THEN <<[EmptyLead EXCEPT !.full_name = "Unknown"]>>
                         ELSE @]]

\* sync_messenger_session_data(session_id) run on database db
SyncMessengerSessionData(db, session_id) ==
  LET messages == MessagesOf(db.msgs, session_id)
      existing == {s \in db.sessions : s.session_id = session_id}
  IN IF existing = {} THEN EnsureMessengerSessionExists(db, session_id)
     ELSE LET s == CHOOSE x \in existing : TRUE
              s2 == [s EXCEPT
                      !.message_count = Len(messages),
                      !.last_message_time =
                          IF messages # <<>> THEN messages[Len(messages)].dateTime
                          ELSE @,
                      !.completion_status = SyncCompletionStatus(messages, now)]
          IN [db EXCEPT !.sessions = (@ \ {s}) \cup {s2}]

\* ensure_messenger_session_exists for each session id of a list, in order
RECURSIVE EnsureAll(_, _)
EnsureAll(db, ids) ==
  IF ids = <<>> THEN db
  ELSE EnsureAll(EnsureMessengerSessionExists(db, Head(ids)), Tail(ids))

\* the session ids a query returns, in one order
RECURSIVE SeqOfSet(_)
SeqOfSet(S) ==
  IF S = {} THEN <<>>
  ELSE LET x == CHOOSE y \in S : TRUE IN <<x>> \o SeqOfSet(S \ {x})

\* session ids with a message of the last 24 hours and no messenger session
OrphanedSessions(db) ==
  {sid \in SessionIds :
     /\ \E i \in 1..Len(db.msgs) :
          db.msgs[i].session_id = sid /\ db.msgs[i].dateTime > now - OrphanHours
     /\ {s \in db.sessions : s.session_id = sid} = {}}

\* auto_sync_orphaned_sessions()
AutoSyncOrphanedSessions(db) == EnsureAll(db, SeqOfSet(OrphanedSessions(db)))

\* the sessions auto_update_completion_status selects
SessionsToUpdate(db) ==
  {s \in db.sessions :
     /\ s.completion_status # "complete"
     /\ HasBookingUrl(MessagesOf(db.msgs, s.session_id))}

\* an update that marks every session complete
AutoUpdateCompletionStatus_All(db) ==
  [db EXCEPT !.sessions = {[s EXCEPT !.completion_status = "complete"] : s \in @}]

\* auto_update_completion_status()
AutoUpdateCompletionStatus(db) ==
  [db EXCEPT !.sessions =
     {IF s.completion_status # "complete"
         /\ HasBookingUrl(MessagesOf(db.msgs, s.session_id))
      THEN LET messages == MessagesOf(db.msgs, s.session_id)
           IN [s EXCEPT !.completion_status = "complete",
                        !.message_count = Len(messages),
                        !.last_message_time = messages[Len(messages)].dateTime]
      ELSE s : s \in @}]

\* POST /api/messenger-sessions/<session_id>/sync
SyncSingleMessengerSession(session_id) ==
  /\ nextId <= MaxPk
  /\ Commit(SyncMessengerSessionData(CurrentDb, session_id))
  /\ resp' = [op |-> "sync", code |-> 200, sid |-> session_id, info |-> <<>>]
  /\ UNCHANGED <<now, completion_notifications, pendingDelete, errors, pollvars, txns, cleanup>>

\* POST /api/sync-completion-status
SyncCompletionStatusEndpoint ==
  /\ Commit(AutoUpdateCompletionStatus(CurrentDb))
  /\ resp' = [op |-> "sync_completion", code |-> 200, sid |-> NULL,
              info |-> <<Cardinality(SessionsToUpdate(CurrentDb))>>]
  /\ UNCHANGED <<now, completion_notifications, pendingDelete, errors, pollvars, txns, cleanup>>

\* POST /api/sync-orphaned-sessions
SyncOrphanedSessionsEndpoint ==
  /\ nextId + Cardinality(OrphanedSessions(CurrentDb)) <= MaxPk + 1
  /\ Commit(AutoSyncOrphanedSessions(CurrentDb))
  /\ resp' = [op |-> "sync_orphaned", code |-> 200, sid |-> NULL,
              info |-> <<Cardinality(OrphanedSessions(CurrentDb))>>]
  /\ UNCHANGED <<now, completion_notifications, pendingDelete, errors, pollvars, txns, cleanup>>

\* -------------------------------------------------------------- API keys
\* the X-API-Key and Authorization headers of a request; NULL is no header
Headers(x_api_key, authorization) ==
  [x_api_key |-> x_api_key, authorization |-> authorization]

\* api_key[7:] when api_key.startswith('Bearer ')
StripBearer(api_key) ==
  CASE api_key = "Bearer secret" -> "secret"
    [] api_key = "Bearer wrong" -> "wrong"
    [] OTHER -> api_key

\* request.headers.get('X-API-Key') or request.headers.get('Authorization'),
\* without its 'Bearer ' prefix
ApiKeyOf(headers) ==
  StripBearer(IF headers.x_api_key \notin {NULL, ""} THEN headers.x_api_key
              ELSE headers.authorization)

\* a key check that compares the keys only
RequireApiKey_CompareOnly(headers, expected_key) ==
  ApiKeyOf(headers) = expected_key

\* require_api_key: TRUE when the wrapped handler runs
RequireApiKey(headers, expected_key) ==
  ~(expected_key \in {NULL, ""} \/ ApiKeyOf(headers) # expected_key)

\* the response of a route behind an API key check
KeyedResp(op, code, headers, expected_key) ==
  [op |-> op, code |-> code, sid |-> NULL, info |-> <<>>,
   auth |-> <<headers, expected_key>>]

\* POST /api/messenger-sessions: the body is valid when it carries a
\* session_id and the two timestamps
CreateMessengerSession(headers, expected_key, session_id) ==
  LET code == IF ~RequireApiKey(headers, expected_key) THEN 401
              ELSE IF session_id = "" THEN 400
              ELSE IF SessionsOf(session_id) # {} THEN 500
              ELSE 201
  IN
  /\ nextId <= MaxPk
  /\ IF code = 201
     THEN /\ sessions' = sessions \cup
               {NewSession(nextId, session_id, now, 1, "messenger", FALSE,
                           "incomplete")}
          /\ nextId' = nextId + 1
     ELSE UNCHANGED <<sessions, nextId>>
  /\ resp' = KeyedResp("create_session", code, headers, expected_key)
  /\ UNCHANGED <<msgs, leads, now, completion_notifications, pendingDelete,
                 errors, pollvars, txns, cleanup>>

\* missing_session_ids of sync_messenger_sessions
MissingSessionIds(db) ==
  {db.msgs[i].session_id : i \in 1..Len(db.msgs)}
    \ {s.session_id : s \in db.sessions}

\* POST /api/messenger-sessions/sync
SyncMessengerSessions(headers, expected_key) ==
  /\ nextId + Cardinality(MissingSessionIds(CurrentDb)) <= MaxPk + 1
  /\ IF RequireApiKey(headers, expected_key)
     THEN /\ Commit(EnsureAll(CurrentDb, SeqOfSet(MissingSessionIds(CurrentDb))))
          /\ resp' = KeyedResp("sync_sessions", 200, headers, expected_key)
     ELSE /\ resp' = KeyedResp("sync_sessions", 401, headers, expected_key)
          /\ UNCHANGED <<msgs, sessions, leads, nextId>>
  /\ UNCHANGED <<now, completion_notifications, pendingDelete, errors, pollvars, txns, cleanup>>

\* POST /api/errors: valid is whether error_schema.load accepts the body
CreateError(headers, expected_key, valid) ==
  LET code == IF ~RequireApiKey(headers, expected_key) THEN 401
              ELSE IF ~valid THEN 400
              ELSE 201
  IN
  /\ Len(errors) < MaxErrors
  /\ errors' = IF code = 201
               THEN Append(errors, [workflow |-> "lead-sync", timestamp |-> now])
               ELSE errors
  /\ resp' = KeyedResp("create_error", code, headers, expected_key)
  /\ UNCHANGED <<msgs, sessions, leads, nextId, now, completion_notifications,
                 pendingDelete, pollvars, txns, cleanup>>

\* A chat message row written by the chat workflow straight into
\* chat_sessions_for_dashboard (dateTime defaults to the database's now()),
\* the rows auto_sync_orphaned_sessions exists to pick up.
WorkflowInsert(session_id, message, user_type) ==
  /\ Len(msgs) < MaxMsgs
  /\ msgs' = Append(msgs, [session_id |-> session_id, dateTime |-> now,
                           userAi |-> user_type, messageStr |-> message])
  /\ resp' = NoResp
  /\ UNCHANGED <<sessions, leads, nextId, now, completion_notifications,
                 pendingDelete, errors, pollvars, txns, cleanup>>

\* ------------------------------------------------------------ lead data
\* A JSON object over the lead fields: Absent marks a key the object does
\* not have, NULL a key whose value is null.
Absent == "ABSENT"

HasKey(data, field) == data[field] # Absent

\* data.get(field)
Get(data, field) == IF HasKey(data, field) THEN data[field] ELSE NULL

\* `not data`: the object has no key
IsEmptyObject(data) == \A f \in DOMAIN data : data[f] = Absent

\* hasattr(lead, field) for the keys of the model
LeadHasAttr(field) == field \in LeadFields

\* the extracted object taken as it comes, null and empty values kept
CleanData_KeepEmpty(extracted_data) == extracted_data

\* {k: v for k, v in extracted_data.items() if v is not None and v != ""}
CleanData(extracted_data) ==
  [f \in DOMAIN extracted_data |->
     IF extracted_data[f] = NULL \/ extracted_data[f] = "" THEN Absent
     ELSE extracted_data[f]]

\* should_update that takes every differing value as news
ShouldUpdate_Always(field, current_value) == TRUE

\* should_update of _process_lead_data
ShouldUpdate(field, current_value) ==
  \/ current_value = NULL
  \/ current_value = ""
  \/ current_value = "Unknown"
  \/ (field = "full_name" /\ current_value \in {"Web Chat User", "Unknown"})

\* the existing-lead branch of _process_lead_data
MergeLead(existing_lead, clean_data) ==
  [f \in LeadFields |->
     IF HasKey(clean_data, f) /\ LeadHasAttr(f) /\ ShouldUpdate(f, existing_lead[f])
     THEN clean_data[f] ELSE existing_lead[f]]

\* the new-lead branch of _process_lead_data
LeadFromData(clean_data) ==
  [f \in LeadFields |->
     IF HasKey(clean_data, f) /\ LeadHasAttr(f) THEN clean_data[f] ELSE NULL]

\* AILeadExtractor._process_lead_data(session_id, extracted_data) on the leads table
ProcessLeadData(l, session_id, extracted_data) ==
  LET clean_data == CleanData(extracted_data)
  IN IF IsEmptyObject(clean_data) THEN l
     ELSE IF l[session_id] # <<>>
     THEN [l EXCEPT ![session_id] =
             <<MergeLead(Head(@), clean_data)>> \o Tail(@)]
     ELSE IF HasKey(clean_data, "full_name")
     THEN [l EXCEPT ![session_id] = <<LeadFromData(clean_data)>>]
     ELSE l

\* extract_lead_information with a failing call treated as a result
Extracted_IgnoringFailure(messages, ai_ok, ai_result) ==
  messages # <<>> /\ ~IsEmptyObject(ai_result)

\* extract_lead_information returns data, and not None: there are messages,
\* the chat-completion call and json.loads succeeded (ai_ok), and the parsed
\* object is not empty
Extracted(messages, ai_ok, ai_result) ==
  messages # <<>> /\ ai_ok /\ ~IsEmptyObject(ai_result)

\* calls of openai_client.chat.completions.create in one invocation
EndpointCalls(messages) == IF messages = <<>> THEN 0 ELSE 1

\* AILeadExtractor.process_session_for_lead_extraction(session_id): the
\* conversation is read, the endpoint is called once, and the parsed object
\* is merged into the lead.  ai_ok is FALSE when the chat-completion call or
\* json.loads raises; ai_result is the parsed object otherwise.  save_ok is
\* FALSE when the db.session.commit() of _process_lead_data raises: the
\* except branch rolls back, and _process_lead_data returns as it does after
\* a commit.
\* info = <<returned value, endpoint calls made, the parsed object, whether
\* the call and the parsing succeeded, whether a commit was made and raised>>.
ExtractionOutcome(session_id, ai_ok, ai_result, save_ok) ==
  LET messages == MessagesOf(msgs, session_id)
      extracted == Extracted(messages, ai_ok, ai_result)
      pending == IF extracted THEN ProcessLeadData(leads, session_id, ai_result)
                 ELSE leads
      save_failed == pending # leads /\ ~save_ok
  IN [leads |-> IF save_failed THEN Rollback(leads, pending) ELSE pending,
      info |-> <<extracted, EndpointCalls(messages), ai_result, ai_ok,
                 save_failed>>]

\* a call of process_session_for_lead_extraction from outside the cleanup run
ProcessSessionForLeadExtraction(session_id, ai_ok, ai_result, save_ok) ==
  LET outcome == ExtractionOutcome(session_id, ai_ok, ai_result, save_ok)
  IN
  /\ leads' = outcome.leads
  /\ resp' = [op |-> "extract", code |-> 0, sid |-> session_id,
              info |-> outcome.info]
  /\ UNCHANGED <<msgs, sessions, nextId, now, completion_notifications,
                 pendingDelete, errors, pollvars, txns, cleanup>>

\* ------------------------------------------------------- session_cleanup.py
\* recent_cutoff = datetime.utcnow() - timedelta(hours=24)
CleanupHours == 24

\* has_unknown_data of find_sessions_needing_processing
HasUnknownData(lead) ==
  \/ lead.full_name \in {NULL, "", "Unknown", "Web Chat User"}
  \/ (lead.company_name \in {NULL, ""} /\ lead.email \in {NULL, ""})

\* the session ids find_sessions_needing_processing returns
SessionsNeedingProcessing ==
  {sid \in SessionIds :
     /\ \E x \in SessionsOf(sid) : x.last_message_time >= now - CleanupHours
     /\ leads[sid] # <<>>
     /\ HasUnknownData(Head(leads[sid]))
     /\ Len(MessagesOf(msgs, sid)) > 1}

\* a loop that gives up at the first session whose extraction fails
RemainingAfter_StopOnFailure(todo, success) ==
  IF success THEN Tail(todo) ELSE <<>>

\* `for session_id in sessions_to_process`, with the try/except inside the
\* loop: what is left to walk after one session
RemainingAfter(todo, success) == Tail(todo)

\* process_missed_sessions up to its loop
FindSessionsNeedingProcessing ==
  /\ cleanup.pc = "idle"
  /\ cleanup' = [cleanup EXCEPT
                   !.found = SessionsNeedingProcessing,
                   !.todo = SeqOfSet(SessionsNeedingProcessing),
                   !.pc = IF SessionsNeedingProcessing = {} THEN "done" ELSE "loop"]
  /\ resp' = NoResp
  /\ UNCHANGED <<msgs, sessions, leads, nextId, now, completion_notifications,
                 pendingDelete, errors, pollvars, txns>>

\* one pass of the loop of process_missed_sessions
ProcessMissedSession(ai_ok, ai_result, save_ok) ==
  LET session_id == Head(cleanup.todo)
      outcome == ExtractionOutcome(session_id, ai_ok, ai_result, save_ok)
      success == outcome.info[1]
      todo == RemainingAfter(cleanup.todo, success)
  IN
  /\ cleanup.pc = "loop"
  /\ leads' = outcome.leads
  /\ cleanup' = [cleanup EXCEPT
                   !.todo = todo,
                   !.attempts[session_id] = @ + 1,
                   !.results[session_id] = IF success THEN "True" ELSE "False",
                   !.pc = IF todo = <<>> THEN "done" ELSE "loop"]
  /\ resp' = [op |-> "extract", code |-> 0, sid |-> session_id,
              info |-> outcome.info]
  /\ UNCHANGED <<msgs, sessions, nextId, now, completion_notifications,
                 pendingDelete, errors, pollvars, txns>>

\* ------------------------------------------- POST/PUT /api/lead/<session_id>
\* upsert_lead replacing the whole row by the request body
UpsertFields_Replace(existing_lead, data) ==
  [f \in LeadFields |-> Get(data, f)]

\* the fields upsert_lead writes on an existing lead
UpsertFields(existing_lead, data) ==
  [f \in LeadFields |-> IF HasKey(data, f) THEN data[f] ELSE existing_lead[f]]

\* info = the request body; auth = the key headers of the request and the
\* CONVERSATION_API_KEY of the server
UpsertLead(session_id, headers, expected_api_key, data) ==
  LET api_key == ApiKeyOf(headers)
      code == IF expected_api_key \in {NULL, ""} THEN 500
              ELSE IF api_key \in {NULL, ""} \/ api_key # expected_api_key THEN 401
              ELSE IF IsEmptyObject(data) THEN 400
              ELSE IF session_id = "" THEN 400
              ELSE IF leads[session_id] # <<>> THEN 200
              ELSE 201
  IN
  /\ leads' =
       IF code = 200
       THEN [leads EXCEPT ![session_id] =
               <<UpsertFields(Head(@), data)>> \o Tail(@)]
       ELSE IF code = 201
       THEN [leads EXCEPT ![session_id] =
               <<[f \in LeadFields |-> Get(data, f)]>>]
       ELSE leads
  /\ resp' = [op |-> "upsert_lead", code |-> code, sid |-> session_id,
              info |-> data, auth |-> <<headers, expected_api_key>>]
  /\ UNCHANGED <<msgs, sessions, nextId, now, completion_notifications,
                 pendingDelete, errors, pollvars, txns, cleanup>>

\* ------------------------------------------------- concurrent requests
\* Requests are served by threads, each in its own database transaction: a
\* handler's queries see the rows committed so far, and its inserts are
\* checked against the unique constraints when the transaction commits.

\* a table state breaks unique=True of MessengerSession.session_id or of
\* Lead.session_id
ViolatesUnique(db) ==
  \E sid \in SessionIds :
    \/ Cardinality({x \in db.sessions : x.session_id = sid}) > 1
    \/ Len(db.leads[sid]) > 1

\* a commit with no unique constraint on session_id
CommitOrRollback_Unconstrained(committed, pending) == pending

\* db.session.commit(), and on IntegrityError the handler's db.session.rollback()
CommitOrRollback(committed, pending) ==
  IF ViolatesUnique(pending) THEN Rollback(committed, pending) ELSE pending

\* handle_chat_message up to its MessengerSession query
HandleChatMessageRead(t, session_id) ==
  /\ txns[t].pc = "idle"
  /\ txns' = [txns EXCEPT ![t] =
       [IdleTxn EXCEPT !.op = "chat", !.sid = session_id,
                       !.saw_session = (SessionsOf(session_id) # {}),
                       !.pc = IF SessionsOf(session_id) # {} THEN "reading"
                              ELSE "ready"]]
  /\ resp' = NoResp
  /\ UNCHANGED <<msgs, sessions, leads, nextId, now, completion_notifications,
                 pendingDelete, errors, pollvars, cleanup>>

\* ensure_messenger_session_exists up to its ChatSessionForDashboard query:
\* it returns at once when the session exists or has no message
EnsureMessengerSessionRead(t, session_id) ==
  LET messages == MessagesOf(msgs, session_id)
      returns == SessionsOf(session_id) # {} \/ messages = <<>>
  IN
  /\ txns[t].pc = "idle"
  /\ txns' = IF returns THEN txns
             ELSE [txns EXCEPT ![t] =
                     [IdleTxn EXCEPT !.op = "ensure", !.sid = session_id,
                                     !.messages = messages, !.pc = "reading"]]
  /\ resp' = IF returns
             THEN [op |-> "ensure", code |-> 0, sid |-> session_id, info |-> <<>>]
             ELSE NoResp
  /\ UNCHANGED <<msgs, sessions, leads, nextId, now, completion_notifications,
                 pendingDelete, errors, pollvars, cleanup>>

\* upsert_lead, called with the expected key and a body, up to its Lead query
UpsertLeadRead(t, session_id) ==
  /\ txns[t].pc = "idle"
  /\ txns' = [txns EXCEPT ![t] =
       [IdleTxn EXCEPT !.op = "upsert_lead", !.sid = session_id,
                       !.saw_lead = (leads[session_id] # <<>>),
                       !.pc = "ready"]]
  /\ resp' = NoResp
  /\ UNCHANGED <<msgs, sessions, leads, nextId, now, completion_notifications,
                 pendingDelete, errors, pollvars, cleanup>>

\* Lead.query.filter_by(session_id=session_id).first() of handle_chat_message
\* and of ensure_messenger_session_exists
RequestReadLead(t) ==
  /\ txns[t].pc = "reading"
  /\ txns' = [txns EXCEPT ![t].saw_lead = (leads[txns[t].sid] # <<>>),
                          ![t].pc = "ready"]
  /\ resp' = NoResp
  /\ UNCHANGED <<msgs, sessions, leads, nextId, now, completion_notifications,
                 pendingDelete, errors, pollvars, cleanup>>

\* the rows the transaction of request r writes, on the committed tables db
PendingWrites(db, r) ==
  LET sid == r.sid
      lead_row == IF r.saw_lead THEN db.leads
                  ELSE [db.leads EXCEPT ![sid] = Append(@, EmptyLead)]
  IN
  IF r.op = "chat"
  THEN LET flushed == Append(db.msgs, [session_id |-> sid, dateTime |-> now,
                                       userAi |-> "user", messageStr |-> "hello"])
       IN IF ~r.saw_session
          THEN Db(flushed,
                  db.sessions \cup
                    {NewSession(db.nextId, sid, now, 1, "web_chat", FALSE,
                                StatusOfFirstMessage("user", "hello"))},
                  [db.leads EXCEPT ![sid] =
                     Append(@, [EmptyLead EXCEPT !.full_name = NewLeadName("", "")])],
                  db.nextId + 1)
          ELSE Db(flushed,
                  {IF x.session_id = sid
                   THEN [x EXCEPT !.last_message_time = now,
                                  !.message_count = CountAfterInsert(flushed, sid)]
                   ELSE x : x \in db.sessions},
                  lead_row, db.nextId)
  ELSE IF r.op = "ensure"
  THEN Db(db.msgs,
          db.sessions \cup
            {NewSession(db.nextId, sid, r.messages[Len(r.messages)].dateTime,
                        Len(r.messages), "messenger", AiEngaged(r.messages),
                        EnsureCompletionStatus(r.messages, now))},
          IF r.saw_lead THEN db.leads
          ELSE [db.leads EXCEPT ![sid] =
                  Append(@, [EmptyLead EXCEPT !.full_name = "Unknown"])],
          db.nextId + 1)
  ELSE Db(db.msgs, db.sessions,
          IF r.saw_lead /\ db.leads[sid] # <<>>
          THEN [db.leads EXCEPT ![sid] =
                  <<[Head(@) EXCEPT !.full_name = "Jane Doe"]>> \o Tail(@)]
          ELSE [db.leads EXCEPT ![sid] =
                  Append(@, [EmptyLead EXCEPT !.full_name = "Jane Doe"])],
          db.nextId)

\* db.session.commit() of the request of thread t and its response: 500 (None
\* from ensure_messenger_session_exists) when the commit raised
RequestCommit(t) ==
  LET pending == PendingWrites(CurrentDb, txns[t])
      after == CommitOrRollback(CurrentDb, pending)
  IN
  /\ txns[t].pc = "ready"
  /\ Len(pending.msgs) <= MaxMsgs
  /\ pending.nextId <= MaxPk + 1
  /\ Commit(after)
  /\ txns' = [txns EXCEPT ![t] = IdleTxn]
  /\ resp' = [op |-> txns[t].op, code |-> IF after = pending THEN 200 ELSE 500,
              sid |-> txns[t].sid,
              info |-> <<txns[t].saw_session, txns[t].saw_lead>>]
  /\ UNCHANGED <<now, completion_notifications, pendingDelete, errors, pollvars, cleanup>>

\* ------------------------------------------------ POST /api/webhook-delivery
\* webhook_url is NULL when N8N_WEBHOOK_URL is not set; outcome is the status
\* code of the POST, or "exception" when requests.post raises a
\* RequestException.
WebhookOutcomes == {"200", "500", "exception"}

\* a delivery flag set whenever a webhook URL is configured
WebhookDelivered_Configured(webhook_url, outcome) == webhook_url # NULL

\* messenger_session.webhook_delivered
WebhookDelivered(webhook_url, outcome) ==
  webhook_url # NULL /\ outcome = "200"

\* messenger_session.webhook_response, by its leading words
WebhookResponse(webhook_url, outcome) ==
  IF webhook_url = NULL THEN "No webhook URL configured"
  ELSE IF outcome = "exception" THEN "Error"
  ELSE "Status"

\* info = <<name, email, 'status' of the response, webhook_url, outcome,
\* completed>>
HandleWebhookDelivery(session_id, name, email, completed, webhook_url, outcome) ==
  LET code == IF session_id = "" THEN 400
              ELSE IF SessionsOf(session_id) = {} THEN 404
              ELSE 200
      s == FirstSession(session_id)
      lead == IF leads[session_id] = <<>> THEN EmptyLead
              ELSE Head(leads[session_id])
      lead2 == [lead EXCEPT !.full_name = IF name # "" THEN name ELSE @,
                            !.email = IF email # "" THEN email ELSE @]
      s2 == [s EXCEPT
               !.completion_status = IF completed THEN "complete" ELSE @,
               !.webhook_delivered = WebhookDelivered(webhook_url, outcome),
               !.webhook_response = WebhookResponse(webhook_url, outcome)]
      status == IF webhook_url # NULL /\ outcome = "exception" THEN "warning"
                ELSE "success"
  IN
  /\ IF code = 200
     THEN /\ sessions' = (sessions \ {s}) \cup {s2}
          /\ leads' = [leads EXCEPT ![session_id] =
                         IF @ = <<>> THEN <<lead2>> ELSE <<lead2>> \o Tail(@)]
     ELSE UNCHANGED <<sessions, leads>>
  /\ resp' = [op |-> "webhook", code |-> code, sid |-> session_id,
              info |-> <<name, email, IF code = 200 THEN status ELSE "error",
                         webhook_url, outcome, completed>>]
  /\ UNCHANGED <<msgs, nextId, now, completion_notifications, pendingDelete, errors, pollvars, txns, cleanup>>

\* ------------------------------------------------------------------ users
Users == {"quinn", "dana", "alex"}

\* User.role
RoleOf(user) ==
  CASE user = "quinn" -> "qa"
    [] user = "dana" -> "qa_dev"
    [] user = "alex" -> "agent"
    [] OTHER -> NULL

\* login_required, then role_required(*allowed_roles): TRUE when the handler runs
RoleAllowed(user, allowed_roles) == user # NoUser /\ RoleOf(user) \in allowed_roles

\* ---------------------------------- PUT /api/messenger-sessions/<id>/qa
QaKeys == {"qa_status", "qa_notes", "dev_feedback", "mark_fixed"}

\* validate.OneOf of the qa_status fields
QaStatuses == {"unchecked", "passed", "issue", "fixed"}

\* the columns of MessengerSession
SessionColumns ==
  {"id", "session_id", "conversation_start", "last_message_time",
   "message_count", "session_summary", "status", "completion_status",
   "ai_engaged", "ai_response", "created_at", "updated_at", "session_source",
   "webhook_delivered", "webhook_delivery_at", "webhook_url",
   "webhook_response", "qa_status", "qa_status_updated_by",
   "qa_status_updated_at", "qa_notes", "qa_notes_updated_at", "dev_feedback",
   "dev_feedback_by", "dev_feedback_at"}

\* the attributes of qa_session the email's html and text templates read
EmailTemplateReads ==
  {"session_id", "full_name", "customer_id", "qa_status_updated_by",
   "qa_status_updated_at", "qa_notes"}

\* resend.Emails.send calls of one request: the block runs when the committed
\* qa_status is 'issue', and reaches the call when the templates evaluate
EmailsSent(previous_qa_status, committed_qa_status) ==
  IF committed_qa_status = "issue" /\ EmailTemplateReads \subseteq SessionColumns
  THEN 1 ELSE 0

\* an exception of the email block failing the request
CodeAfterEmail_Propagated(email_failed) == IF email_failed THEN 500 ELSE 200

\* the email block raised: it runs when the committed qa_status is 'issue',
\* and building the email body reads attributes the session row lacks
EmailFailed(committed_qa_status) ==
  committed_qa_status = "issue" /\ ~(EmailTemplateReads \subseteq SessionColumns)

\* except Exception as email_error: logged, "Don't fail the main request"
CodeAfterEmail(email_failed) == 200

\* info = <<qa_status before the request, resend.Emails.send calls, the
\* request body, whether the email block raised>>
\* a request ending with its uncommitted changes written to the database
Teardown_Commit(committed, pending) == pending

\* a handler that returns without db.session.commit(): the scoped session of
\* db = SQLAlchemy(...) is removed when the request ends, and the changes
\* made to its objects are discarded
Teardown(committed, pending) == committed

\* info = <<qa_status before, emails sent, the request body, whether the
\* email failed, the user>>
UpdateMessengerSessionQa(pk, user, data) ==
  LET found == SessionByPk(pk)
      s == CHOOSE x \in found : TRUE
      developer == RoleOf(user) \in {"qa_dev", "admin"}
      denied == (HasKey(data, "dev_feedback") \/ data["mark_fixed"] = "true")
                /\ ~developer
      code == IF ~RoleAllowed(user, {"qa", "qa_dev", "admin"}) THEN 302
              ELSE IF found = {} THEN 404
              ELSE IF denied THEN 403
              ELSE 0
      s2 == [s EXCEPT
               !.qa_status = IF data["mark_fixed"] = "true" THEN "fixed"
                             ELSE IF HasKey(data, "qa_status") THEN data["qa_status"]
                             ELSE @,
               !.qa_notes = IF HasKey(data, "qa_notes") THEN data["qa_notes"] ELSE @,
               !.dev_feedback = IF HasKey(data, "dev_feedback")
                                THEN data["dev_feedback"] ELSE @]
      \* what the handler had set on the row when it returned 403
      dirty == [s EXCEPT
                  !.qa_status = IF HasKey(data, "qa_status") THEN data["qa_status"]
                                ELSE @,
                  !.qa_notes = IF HasKey(data, "qa_notes") THEN data["qa_notes"]
                               ELSE @]
  IN
  /\ sessions' = IF code = 0 THEN (sessions \ {s}) \cup {s2}
                 ELSE IF code = 403
                 THEN Teardown(sessions, (sessions \ {s}) \cup {dirty})
                 ELSE sessions
  /\ resp' = [op |-> "qa",
              code |-> IF code = 0 THEN CodeAfterEmail(EmailFailed(s2.qa_status))
                       ELSE code,
              sid |-> pk,
              info |-> <<IF code = 0 THEN s.qa_status ELSE NULL,
                         IF code = 0 THEN EmailsSent(s.qa_status, s2.qa_status)
                         ELSE 0,
                         data,
                         code = 0 /\ EmailFailed(s2.qa_status),
                         user>>]
  /\ UNCHANGED <<msgs, leads, nextId, now, completion_notifications, pendingDelete, errors, pollvars, txns, cleanup>>

\* ------------------------------------- PUT /api/messenger-sessions/<id>
\* MessengerSessionUpdateSchema.load(request.json) raises ValidationError: a
\* key that is no field of the schema, or a qa_status outside its values
UpdateInvalid(data) ==
  \/ HasKey(data, "mark_fixed")
  \/ (HasKey(data, "qa_status") /\ data["qa_status"] \notin QaStatuses)

\* update_messenger_session: login_required, then every loaded key is set
\* on the row.  info = <<the request body, the user>>
UpdateMessengerSession(pk, user, data) ==
  LET found == SessionByPk(pk)
      s == CHOOSE x \in found : TRUE
      code == IF user = NoUser THEN 302
              ELSE IF found = {} THEN 404
              ELSE IF UpdateInvalid(data) THEN 400
              ELSE 200
      s2 == [s EXCEPT
               !.qa_status = IF HasKey(data, "qa_status") THEN data["qa_status"] ELSE @,
               !.qa_notes = IF HasKey(data, "qa_notes") THEN data["qa_notes"] ELSE @,
               !.dev_feedback = IF HasKey(data, "dev_feedback")
                                THEN data["dev_feedback"] ELSE @]
  IN
  /\ sessions' = IF code = 200 THEN (sessions \ {s}) \cup {s2} ELSE sessions
  /\ resp' = [op |-> "update", code |-> code, sid |-> pk, info |-> <<data, user>>]
  /\ UNCHANGED <<msgs, leads, nextId, now, completion_notifications,
                 pendingDelete, errors, pollvars, txns, cleanup>>

\* ------------------------------ DELETE /api/messenger-sessions/<id>
\* a check that takes every session for a testing session
IsTestingSession_Any(lead_name, session_id, session_source) == TRUE

\* is_testing_session of delete_testing_session
IsTestingSession(lead_name, session_id, session_source) ==
  \/ lead_name = "Testing Session"
  \/ lead_name = "Unknown"
  \/ lead_name = "Web Chat User"
  \/ lead_name = ""
  \/ lead_name = NULL
  \/ Contains("test", Lower(session_id))
  \/ Contains("realtime", Lower(session_id))
  \/ Contains("verification", Lower(session_id))
  \/ session_source = "web_chat"
  \/ StartsWith(session_id, "test_")
  \/ StartsWith(session_id, "session_")

\* lead.full_name if lead and lead.full_name else 'Unknown'
LeadNameOrUnknown(l, session_id) ==
  IF l[session_id] # <<>> /\ Head(l[session_id]).full_name \notin {NULL, ""}
  THEN Head(l[session_id]).full_name ELSE "Unknown"

\* a delete that removes the messages of every session
DeleteRows_AllMessages(db, s) ==
  [db EXCEPT
     !.msgs = <<>>,
     !.leads = [@ EXCEPT ![s.session_id] = IF @ = <<>> THEN @ ELSE Tail(@)],
     !.sessions = @ \ {s}]

\* the rows the handler deletes before its commit
DeleteRows(db, s) ==
  [db EXCEPT
     !.msgs = SelectSeq(@, LAMBDA r: r.session_id # s.session_id),
     !.leads = [@ EXCEPT ![s.session_id] = IF @ = <<>> THEN @ ELSE Tail(@)],
     !.sessions = @ \ {s}]

DeleteResp(code, pk, session_id, user) ==
  [op |-> "delete", code |-> code, sid |-> session_id, info |-> <<pk, user>>]

\* the handler up to and including its commit
DeleteTestingSession(pk, user) ==
  LET found == SessionByPk(pk)
      s == CHOOSE x \in found : TRUE
      code == IF user = NoUser THEN 401
              ELSE IF found = {} THEN 404
              ELSE IF ~IsTestingSession(LeadNameOrUnknown(leads, s.session_id),
                                        s.session_id, s.session_source) THEN 403
              ELSE 0
  IN
  /\ pendingDelete = NoDelete
  /\ IF code = 0
     THEN /\ Commit(DeleteRows(CurrentDb, s))
          /\ pendingDelete' = [id |-> pk, session_id |-> s.session_id, user |-> user]
          /\ resp' = NoResp
     ELSE /\ resp' = DeleteResp(code, pk, IF found = {} THEN NULL ELSE s.session_id,
                                 user)
          /\ UNCHANGED <<msgs, sessions, leads, nextId, pendingDelete>>
  /\ UNCHANGED <<now, completion_notifications, errors, pollvars, txns, cleanup>>

\* the handler after its commit: the verification queries and the response
VerifyDeletion ==
  /\ pendingDelete # NoDelete
  /\ LET verification_session == SessionByPk(pendingDelete.id)
         verification_messages == Len(MessagesOf(msgs, pendingDelete.session_id))
     IN resp' = DeleteResp(IF verification_session # {} \/ verification_messages > 0
                           THEN 500 ELSE 200,
                           pendingDelete.id, pendingDelete.session_id,
                           pendingDelete.user)
  /\ pendingDelete' = NoDelete
  /\ UNCHANGED <<msgs, sessions, leads, nextId, now, completion_notifications, errors, pollvars, txns, cleanup>>

\* ------------------------------------------ GET /api/messenger-sessions

\* the filters of the query; Absent is a parameter the request does not carry
MatchesFilters(s, status, qa_status) ==
  IF status # Absent
  THEN CASE status = "all" -> TRUE
         [] status = "archived" -> s.status = "archived"
         [] status = "active" -> s.status = "active" \/ s.status = NULL
         [] status \in {"resolved", "escalated"} -> s.status = status
         [] OTHER -> TRUE
  ELSE IF qa_status # Absent /\ qa_status # ""
  THEN s.qa_status = qa_status
  ELSE s.status # "archived" \/ s.status = NULL

\* query.order_by(MessengerSession.created_at.desc()): the primary keys of the
\* rows, newest row first; rows are created in primary key order and newest_pk
\* is the last key handed out
RECURSIVE NewestFirst(_, _)
NewestFirst(pks, newest_pk) ==
  IF newest_pk = 0 THEN <<>>
  ELSE (IF newest_pk \in pks THEN <<newest_pk>> ELSE <<>>)
       \o NewestFirst(pks, newest_pk - 1)

\* query.offset((page - 1) * per_page).limit(per_page).all()
Paginate(ordered, page, per_page) ==
  LET offset == (page - 1) * per_page
      last == IF offset + per_page < Len(ordered) THEN offset + per_page
              ELSE Len(ordered)
  IN SubSeq(ordered, offset + 1, last)

\* the page count rounded down
TotalPages_Floor(total, per_page) == total \div per_page

\* (total + per_page - 1) // per_page if total > 0 else 0
TotalPages(total, per_page) ==
  IF total > 0 THEN (total + per_page - 1) \div per_page ELSE 0

\* 'has_next': page < total_pages
HasNext(page, total_pages) == page < total_pages

\* 'has_prev': page > 1
HasPrev(page) == page > 1

\* the 'pagination' object and the primary keys of the 'data' rows
ListResponse(matching_pks, newest_pk, page, per_page) ==
  [data |-> Paginate(NewestFirst(matching_pks, newest_pk), page, per_page),
   page |-> page, per_page |-> per_page,
   pages |-> TotalPages(Cardinality(matching_pks), per_page),
   total |-> Cardinality(matching_pks),
   has_next |-> HasNext(page, TotalPages(Cardinality(matching_pks), per_page)),
   has_prev |-> HasPrev(page)]

GetMessengerSessions(page, per_page, status, qa_status) ==
  LET synced == AutoUpdateCompletionStatus(AutoSyncOrphanedSessions(CurrentDb))
      matching == {s \in synced.sessions : MatchesFilters(s, status, qa_status)}
  IN
  /\ Commit(synced)
  /\ resp' = [op |-> "list", code |-> 200, sid |-> NULL,
              info |-> <<ListResponse({s.id : s \in matching}, synced.nextId - 1,
                                      page, per_page),
                         status, qa_status>>]
  /\ UNCHANGED <<now, completion_notifications, pendingDelete, errors, pollvars, txns, cleanup>>

\* ------------------------------------------ GET /api/completion-notifications
\* The handler runs in a thread of the server and takes no lock: between its
\* copy of the list and its clearing of the list other threads run.
\* pc of a thread: "idle" before the request, "copied" between
\* `notifications = app.completion_notifications.copy()` and
\* `app.completion_notifications = []`, "done" after the response, whose
\* 'notifications' the thread keeps.

\* the test of the list and, when it is not empty, the copy
GetCompletionNotificationsCopy(p) ==
  /\ polls[p].pc = "idle"
  /\ IF completion_notifications # <<>>
     THEN /\ polls' = [polls EXCEPT ![p] = [pc |-> "copied",
                            notifications |-> completion_notifications]]
          /\ resp' = NoResp
     ELSE /\ polls' = [polls EXCEPT ![p] = [pc |-> "done", notifications |-> <<>>]]
          /\ resp' = [op |-> "notifications", code |-> 200, sid |-> NULL,
                      info |-> <<>>]
  /\ UNCHANGED <<msgs, sessions, leads, nextId, now, completion_notifications,
                 pendingDelete, errors, appended, txns, cleanup>>

\* the clearing of the list and the response
GetCompletionNotificationsClear(p) ==
  /\ polls[p].pc = "copied"
  /\ completion_notifications' = <<>>
  /\ polls' = [polls EXCEPT ![p].pc = "done"]
  /\ resp' = [op |-> "notifications", code |-> 200, sid |-> NULL,
              info |-> polls[p].notifications]
  /\ UNCHANGED <<msgs, sessions, leads, nextId, now, pendingDelete, errors,
                 appended, txns, cleanup>>

\* ---------------------------------------------------------- request data
DataKeys == LeadFields \cup {"lead_score"}

Object(full_name, company_name, email, lead_score) ==
  [f \in DataKeys |->
     CASE f = "full_name" -> full_name
       [] f = "company_name" -> company_name
       [] f = "email" -> email
       [] OTHER -> lead_score]

\* JSON objects a chat-completion response or an upsert request body carries
LeadObjects ==
  { Object("Jane Doe", "Acme", "jane@x.com", Absent),
    Object("John Smith", Absent, Absent, Absent),
    Object(NULL, "", "jane@x.com", Absent),
    Object(Absent, Absent, Absent, "7"),
    Object(Absent, Absent, Absent, Absent) }

QaObject(qa_status, qa_notes, dev_feedback, mark_fixed) ==
  [f \in QaKeys |->
     CASE f = "qa_status" -> qa_status
       [] f = "qa_notes" -> qa_notes
       [] f = "dev_feedback" -> dev_feedback
       [] OTHER -> mark_fixed]

\* ------------------------------------------------------------------ claims
\* the lead row of a session id, when there is one
LeadOf(l, session_id) == Head(l[session_id])

\* a value the fill-only policy may replace
IsPlaceholder(field, value) ==
  \/ value \in {NULL, "", "Unknown"}
  \/ (field = "full_name" /\ value = "Web Chat User")

\* C1: a chat message with a session_id and a message, for a session id that
\* has no messenger session, leaves on commit exactly one messenger session
\* and exactly one lead for that session id, and the lead is named
\* 'Web Chat User' when the request carried no first or last name.
C1_FirstMessageCreatesSessionAndLead ==
  [][\A sid \in SessionIds :
       (/\ resp'.op = "chat" /\ resp'.code = 200 /\ resp'.sid = sid
        /\ SessionsOf(sid) = {})
       => /\ Cardinality(SessionsOf(sid)') = 1
          /\ Len(leads'[sid]) = 1
          /\ (resp'.info[1] = "" /\ resp'.info[2] = ""
                => LeadOf(leads', sid).full_name = "Web Chat User")]_vars

C1_Witness ==
  /\ resp.op = "chat" /\ resp.code = 200 /\ resp.info[4]
  /\ resp.info[1] = "" /\ resp.info[2] = ""
  /\ Cardinality(SessionsOf(resp.sid)) = 1
  /\ Len(leads[resp.sid]) = 1

\* C2: lead extraction never changes a field of an existing lead whose value
\* is not a placeholder, whatever value was extracted for it.
C2_ExtractionKeepsConfirmedFields ==
  [][\A sid \in SessionIds, f \in LeadFields :
       (/\ resp'.op = "extract" /\ resp'.sid = sid
        /\ leads[sid] # <<>>
        /\ ~IsPlaceholder(f, LeadOf(leads, sid)[f]))
       => /\ leads'[sid] # <<>>
          /\ LeadOf(leads', sid)[f] = LeadOf(leads, sid)[f]]_vars

\* a lead named 'Jane Doe' after an extraction that returned 'John Smith'
C2_Witness ==
  /\ resp.op = "extract" /\ resp.info[1]
  /\ resp.info[3]["full_name"] = "John Smith"
  /\ leads[resp.sid] # <<>>
  /\ LeadOf(leads, resp.sid).full_name = "Jane Doe"

\* C3 as stated: once a lead exists, no operation changes a field that holds
\* a confirmed (non-placeholder) value.
C3_NoWriterOverwritesConfirmedFields ==
  [][\A sid \in SessionIds, f \in LeadFields :
       (leads[sid] # <<>> /\ ~IsPlaceholder(f, LeadOf(leads, sid)[f]))
       => /\ leads'[sid] # <<>>
          /\ LeadOf(leads', sid)[f] = LeadOf(leads, sid)[f]]_vars

\* the value a request supplies for a lead field, Absent when it supplies none
Supplied(r, f) ==
  CASE r.op = "upsert_lead" /\ r.code = 200 -> r.info[f]
    [] r.op = "chat" /\ r.code = 200 ->
         IF f = "full_name" /\ (r.info[1] # "" \/ r.info[2] # "")
         THEN StripJoin(r.info[1], r.info[2])
         ELSE IF f = "email" /\ Contains("@", r.info[3]) THEN r.info[3]
         ELSE Absent
    [] r.op = "webhook" /\ r.code = 200 ->
         IF f = "full_name" /\ r.info[1] # "" THEN r.info[1]
         ELSE IF f = "email" /\ r.info[2] # "" THEN r.info[2]
         ELSE Absent
    [] OTHER -> Absent

\* C3 as amended: once a lead exists, a field that holds a confirmed value
\* changes only in a request to upsert_lead, handle_chat_message or
\* handle_webhook_delivery that supplies a value for that field, and it then
\* takes the supplied value; lead extraction and requests that do not supply
\* the field leave it as it is.
C3_ConfirmedFieldsChangeOnlyBySuppliedValue ==
  [][\A sid \in SessionIds, f \in LeadFields :
       (leads[sid] # <<>> /\ ~IsPlaceholder(f, LeadOf(leads, sid)[f]))
       => /\ leads'[sid] # <<>>
          /\ \/ LeadOf(leads', sid)[f] = LeadOf(leads, sid)[f]
             \/ /\ resp'.sid = sid
                /\ Supplied(resp', f) # Absent
                /\ LeadOf(leads', sid)[f] = Supplied(resp', f)]_vars

\* an upsert that named only full_name, on a lead whose email is confirmed
C3_Witness ==
  /\ resp.op = "upsert_lead" /\ resp.code = 200
  /\ resp.info["full_name"] = "John Smith" /\ resp.info["email"] = Absent
  /\ LeadOf(leads, resp.sid).full_name = "John Smith"
  /\ LeadOf(leads, resp.sid).email = "jane@x.com"

\* the completion label of section 4.1 for a session's messages at time t
ExpectedStatus(messages, t) ==
  IF \E i \in 1..Len(messages) :
       Lower(messages[i].messageStr) = "call you within 24 hours"
  THEN "complete"
  ELSE IF /\ \E i \in 1..Len(messages) : messages[i].userAi = "ai"
          /\ t - messages[Len(messages)].dateTime < RecencyHours
  THEN "in_progress"
  ELSE "incomplete"

\* C4: after a chat message whose text contains 'within 24 hours' is stored
\* by handle_chat_message, from either role and whether it is the first
\* message of the session or a later one, the session is 'complete'.
C4_MarkerMessageCompletesSession ==
  (resp.op = "chat" /\ resp.code = 200
   /\ HasCompletionMarker(msgs[Len(msgs)].messageStr))
  => \A s \in SessionsOf(resp.sid) : s.completion_status = "complete"

\* C5: a session that ensure_messenger_session_exists creates is 'complete'
\* when a message contains the completion phrase, otherwise 'in_progress'
\* when the AI has sent a message and the last message is less than 12 hours
\* old, otherwise 'incomplete'.
C5_EnsureComputesCompletionStatus ==
  [][\A sid \in SessionIds :
       (/\ resp'.op \in {"sync", "sync_orphaned"}
        /\ SessionsOf(sid) = {} /\ SessionsOf(sid)' # {})
       => \A s \in SessionsOf(sid)' :
            s.completion_status = ExpectedStatus(MessagesOf(msgs, sid), now)]_vars

\* a session created 'incomplete' from an AI message exactly 12 hours old
C5_Witness ==
  /\ resp.op = "sync"
  /\ \E s \in SessionsOf(resp.sid) :
       /\ s.completion_status = "incomplete"
       /\ s.ai_engaged
       /\ s.session_source = "messenger"
       /\ now - s.last_message_time = RecencyHours
       /\ ~HasBookingUrl(MessagesOf(msgs, resp.sid))

\* C6: sync_messenger_session_data on an existing session without a
\* completion marker gives the label ensure_messenger_session_exists gives
\* for the same messages: 'in_progress' only if the AI has sent a message
\* and the last message is within 12 hours, 'incomplete' otherwise.
C6_SyncAgreesWithEnsure ==
  (resp.op = "sync" /\ ~HasBookingUrl(MessagesOf(msgs, resp.sid)))
  => \A s \in SessionsOf(resp.sid) :
       s.completion_status = ExpectedStatus(MessagesOf(msgs, resp.sid), now)

\* C7 as stated: a request that update_messenger_session_qa answers with 200
\* makes exactly one email call when it moves qa_status from a value other than
\* 'issue' to 'issue', and none otherwise.
C7_OneEmailPerTransitionToIssue ==
  (resp.op = "qa" /\ resp.code = 200)
  => \A s \in SessionByPk(resp.sid) :
       resp.info[2] = (IF resp.info[1] # "issue" /\ s.qa_status = "issue"
                       THEN 1 ELSE 0)

\* a session that counts as test or demo data: a placeholder or missing lead
\* name, a web chat session, or a session id that marks a test
TestOrDemo(s, l) ==
  \/ l[s.session_id] = <<>>
  \/ Head(l[s.session_id]).full_name \in
       {NULL, "", "Unknown", "Web Chat User", "Testing Session"}
  \/ s.session_source = "web_chat"
  \/ s.session_id \in {"Test_42"}

\* C8: a delete request by a logged-in user for a session that is not a
\* testing session is answered 403 and leaves the messages, the leads and the
\* sessions as they were; a session row disappears only if it is a testing
\* session.
C8_OnlyTestingSessionsAreDeleted ==
  [][\A s \in sessions :
       ~TestOrDemo(s, leads) =>
         /\ \E x \in sessions' : x.id = s.id
         /\ (resp'.op = "delete" /\ resp'.info[1] = s.id /\ resp'.info[2] # NoUser)
            => /\ resp'.code = 403
               /\ msgs' = msgs /\ leads' = leads /\ sessions' = sessions]_vars

C8_Witness ==
  /\ resp.op = "delete" /\ resp.code = 403
  /\ \E s \in SessionByPk(resp.info[1]) :
       /\ ~TestOrDemo(s, leads)
       /\ MessagesOf(msgs, s.session_id) # <<>>
  /\ Cardinality(sessions) = 1

\* C9 as stated: when delete_testing_session answers with a failure, the
\* session row, the lead and the messages it was asked to delete are still
\* there.
C9_FailedDeleteLeavesRows ==
  (resp.op = "delete" /\ resp.code = 500) => SessionByPk(resp.info[1]) # {}

\* the least k with k * n >= t
CeilDiv(t, n) == CHOOSE k \in 0..t : k * n >= t /\ (k - 1) * n < t

\* the sessions a list request with these filters is about
Matching(status, qa_status) ==
  {s \in sessions : IF qa_status = Absent THEN s.status # "archived"
                    ELSE s.qa_status = qa_status}

\* C10: page p with per_page n over T matching sessions returns
\* min(n, max(0, T - (p-1)*n)) items, pages = ceil(T/n), has_next = (p < pages)
\* and has_prev = (p > 1).
C10_PaginationArithmetic ==
  resp.op = "list" =>
    LET r == resp.info[1]
        T == Cardinality(Matching(resp.info[2], resp.info[3]))
        rest == IF T - (r.page - 1) * r.per_page > 0
                THEN T - (r.page - 1) * r.per_page ELSE 0
    IN /\ Len(r.data) = (IF r.per_page < rest THEN r.per_page ELSE rest)
       /\ r.pages = CeilDiv(T, r.per_page)
       /\ r.has_next = (r.page < r.pages)
       /\ r.has_prev = (r.page > 1)

\* page=2, per_page=10 on 25 rows
C10_Witness ==
  /\ resp.op = "list"
  /\ resp.info[1].page = 2 /\ resp.info[1].per_page = 10
  /\ Cardinality(sessions) = 25
  /\ Len(resp.info[1].data) = 10
  /\ resp.info[1].pages = 3
  /\ resp.info[1].has_next /\ resp.info[1].has_prev

\* the fields of a session row that a sync recomputes
Synced(s) == <<s.message_count, s.last_message_time, s.completion_status>>

\* C11 as stated: a sync of a session id that directly follows a sync of the
\* same session id, with no message stored in between, leaves message_count,
\* last_message_time and completion_status as the first sync left them, also
\* when the first sync created the session row.
C11_SyncTwiceIsSyncOnce ==
  [][(resp.op = "sync" /\ resp'.op = "sync" /\ resp'.sid = resp.sid)
     => {Synced(s) : s \in SessionsOf(resp.sid)'}
        = {Synced(s) : s \in SessionsOf(resp.sid)}]_vars

\* C12: the stored messages of a session only grow at the end, each keeping
\* its session id, role, timestamp and text, except in the commit of
\* delete_testing_session for that session, which removes them all.
C12_MessagesAreAppendOnly ==
  [][\A sid \in SessionIds :
       LET old == MessagesOf(msgs, sid)
           new == MessagesOf(msgs', sid)
       IN \/ Len(new) >= Len(old) /\ SubSeq(new, 1, Len(old)) = old
          \/ /\ new = <<>>
             /\ pendingDelete = NoDelete
             /\ pendingDelete'.session_id = sid]_vars

\* a delete has removed the messages of its session and left another's
C12_Witness ==
  /\ pendingDelete # NoDelete
  /\ MessagesOf(msgs, pendingDelete.session_id) = <<>>
  /\ msgs # <<>>

C14_FailedChatMessageChangesNothing ==
  [][(resp'.op = "chat" /\ resp'.code \in {400, 500})
     => msgs' = msgs /\ sessions' = sessions /\ leads' = leads]_vars

\* a request that failed after its message, session and lead were added to
\* the transaction: the lead of the session id was already there
C14_Witness ==
  /\ resp.op = "chat" /\ resp.code = 500
  /\ SessionsOf(resp.sid) = {}
  /\ leads[resp.sid] # <<>>
  /\ MessagesOf(msgs, resp.sid) = <<>>

\* C15: when a webhook URL is configured and the POST raises a request
\* exception, handle_webhook_delivery still commits the lead and completion
\* updates, records webhook_delivered False with the error text, and answers
\* 200 with status 'warning'; webhook_delivered is False after every delivery
\* that failed or had no URL configured.
C15_WebhookFailureDegradesGracefully ==
  [][\A s \in {x \in sessions' : x.session_id = resp'.sid} :
       (resp'.op = "webhook" /\ SessionsOf(resp'.sid) # {})
       => /\ (resp'.info[4] = NULL \/ resp'.info[5] # "200")
             => ~s.webhook_delivered
          /\ (resp'.info[4] # NULL /\ resp'.info[5] = "exception")
             => /\ resp'.code = 200 /\ resp'.info[3] = "warning"
                /\ s.webhook_response = "Error"
                /\ resp'.info[6] => s.completion_status = "complete"
                /\ resp'.info[1] # ""
                   => LeadOf(leads', resp'.sid).full_name = resp'.info[1]
                /\ resp'.info[2] # ""
                   => LeadOf(leads', resp'.sid).email = resp'.info[2]]_vars

\* a delivery that raised, for a request that named the lead and completed
\* the session
C15_Witness ==
  /\ resp.op = "webhook" /\ resp.code = 200 /\ resp.info[3] = "warning"
  /\ resp.info[1] = "Jane Doe" /\ resp.info[6]
  /\ LeadOf(leads, resp.sid).full_name = "Jane Doe"
  /\ \E s \in SessionsOf(resp.sid) :
       s.completion_status = "complete" /\ ~s.webhook_delivered

\* C16: when the email notification of update_messenger_session_qa fails,
\* the request is still answered with the success envelope and the QA status
\* and notes it carried are committed.
C16_EmailFailureKeepsQaUpdate ==
  [][(resp'.op = "qa" /\ resp'.info[4])
     => /\ resp'.code = 200
        /\ \E s \in sessions' :
             /\ s.id = resp'.sid
             /\ s.qa_status = "issue"
             /\ HasKey(resp'.info[3], "qa_notes")
                => s.qa_notes = resp'.info[3]["qa_notes"]]_vars

\* a request that set 'issue' with notes on an unchecked session and whose
\* email block raised
C16_Witness ==
  /\ resp.op = "qa" /\ resp.code = 200 /\ resp.info[4]
  /\ resp.info[1] = "unchecked"
  /\ resp.info[3]["qa_status"] = "issue"
  /\ \E s \in SessionByPk(resp.sid) :
       s.qa_status = "issue" /\ s.qa_notes = "wrong answer"

\* the responses of the routes that check an API key
KeyedOps == {"create_session", "sync_sessions", "create_error", "upsert_lead"}

\* the request carries the key the server expects: in X-API-Key, or in
\* Authorization, bare or as a Bearer token
CarriesKey(headers, expected_key) ==
  /\ expected_key = "secret"
  /\ \/ headers.x_api_key = "secret"
     \/ headers.authorization \in {"secret", "Bearer secret"}

\* C17: a request to a route behind an API key that does not carry the
\* expected key, or arrives when no key is configured, is answered with an
\* error and changes no table.
C17_NoKeyNoChange ==
  [][(resp'.op \in KeyedOps /\ ~CarriesKey(resp'.auth[1], resp'.auth[2]))
     => /\ resp'.code \in {401, 500}
        /\ msgs' = msgs /\ sessions' = sessions /\ leads' = leads
        /\ errors' = errors]_vars

\* a request without key headers to a server without a configured key, with
\* messages waiting to be synced
C17_Witness ==
  /\ resp.op = "sync_sessions" /\ resp.code = 401
  /\ resp.auth[1] = Headers(NULL, NULL) /\ resp.auth[2] = NULL
  /\ msgs # <<>> /\ sessions = {}

\* C18: when _process_lead_data runs for a session that has no lead row, a
\* row is created only if the extracted object carries a full_name that is
\* neither null nor empty; without one, no row is created and the chat
\* message, session, lead and error tables stay as they were.
C18_NewLeadNeedsFullName ==
  [][(resp'.op = "extract" /\ resp'.info[1] /\ leads[resp'.sid] = <<>>)
     => /\ leads'[resp'.sid] # <<>>
             => resp'.info[3]["full_name"] \notin {Absent, NULL, ""}
        /\ resp'.info[3]["full_name"] \in {Absent, NULL, ""}
             => /\ leads' = leads
                /\ msgs' = msgs /\ sessions' = sessions /\ errors' = errors]_vars

\* an extraction that returned an email address and a null name for a
\* session without a lead row, and left it without one
C18_Witness ==
  /\ resp.op = "extract" /\ resp.info[1]
  /\ resp.info[3]["full_name"] = NULL
  /\ resp.info[3]["email"] = "jane@x.com"
  /\ leads[resp.sid] = <<>>

\* C19: the rows get_messenger_sessions returns for a request that carries a
\* qa_status filter all have that qa_status, whether or not the request
\* carries a status filter as well.
C19_QaStatusFilterHolds ==
  (resp.op = "list" /\ resp.info[3] \notin {Absent, ""})
    => \A i \in 1..Len(resp.info[1].data) :
         \A s \in sessions :
           s.id = resp.info[1].data[i] => s.qa_status = resp.info[3]

\* how many times n occurs in a list of notifications
Count(n, list) == Cardinality({i \in 1..Len(list) : list[i] = n})

\* how many times the responses sent so far carried n
TimesReturned(n) ==
  LET RECURSIVE Sum(_)
      Sum(P) == IF P = {} THEN 0
                ELSE LET p == CHOOSE q \in P : TRUE
                     IN Count(n, polls[p].notifications) + Sum(P \ {p})
  IN Sum({p \in Pollers : polls[p].pc = "done"})

\* no poll is between its copy and its clear, and the list is empty
NothingPending ==
  /\ completion_notifications = <<>>
  /\ \A p \in Pollers : polls[p].pc # "copied"

\* C20: with fewer than 50 notifications appended (none is evicted), no
\* notification is returned by more polls than times it was appended, and
\* once the list is empty and no poll is under way every appended
\* notification has been returned.
C20_EachNotificationReturnedOnce ==
  \A i \in 1..Len(appended) :
    LET n == appended[i]
    IN /\ TimesReturned(n) <= Count(n, appended)
       /\ NothingPending => TimesReturned(n) >= Count(n, appended)

\* C21: every session_id has at most one messenger session row and at most
\* one lead row, also while requests for the same unseen session_id run in
\* concurrent transactions.
C21_OneSessionAndOneLeadPerSessionId ==
  \A sid \in SessionIds :
    /\ Cardinality(SessionsOf(sid)) <= 1
    /\ Len(leads[sid]) <= 1

\* a request that found no session row when it read, and whose commit was
\* refused because another request had inserted the row in between
C21_Witness ==
  /\ resp.op \in {"chat", "ensure"} /\ resp.code = 500
  /\ resp.info[1] = FALSE
  /\ Cardinality(SessionsOf(resp.sid)) = 1
  /\ Len(leads[resp.sid]) = 1

\* C22: a session whose completion_status is 'complete' keeps that value in
\* every later step in which its row still exists.
C22_CompleteStaysComplete ==
  [][\A s \in sessions : \A x \in sessions' :
       (s.completion_status = "complete" /\ x.id = s.id)
         => x.completion_status = "complete"]_vars

\* C23: after a handle_chat_message request answered 200, the message_count
\* of the session is the number of chat message rows stored for its
\* session_id.
C23_MessageCountIsRowCount ==
  (resp.op = "chat" /\ resp.code = 200)
    => \A s \in SessionsOf(resp.sid) :
         s.message_count = Len(MessagesOf(msgs, resp.sid))

\* the body of a qa request asks for developer feedback or for a fix mark
WantsDeveloperWrite(data) ==
  HasKey(data, "dev_feedback") \/ data["mark_fixed"] = "true"

RequestUser(r) ==
  IF r.op = "qa" THEN r.info[5]
  ELSE IF r.op = "update" THEN r.info[2]
  ELSE NoUser

\* the step is the request of a logged-in user of role qa_dev or admin
ByDeveloper ==
  /\ RequestUser(resp') # NoUser
  /\ RoleOf(RequestUser(resp')) \in {"qa_dev", "admin"}

\* C25: every step that changes the dev_feedback of a session is a request
\* of a logged-in user whose role is qa_dev or admin.
C25_DevFeedbackOnlyByDevelopers ==
  [][(\E s \in sessions : \E x \in sessions' :
        x.id = s.id /\ x.dev_feedback # s.dev_feedback)
     => ByDeveloper]_vars

\* C26: every step in which the qa_status of a session becomes 'fixed' is a
\* request of a logged-in user whose role is qa_dev or admin.
C26_FixedOnlyByDevelopers ==
  [][(\E s \in sessions : \E x \in sessions' :
        x.id = s.id /\ s.qa_status # "fixed" /\ x.qa_status = "fixed")
     => ByDeveloper]_vars

\* C27: when auto_update_completion_status has run, every session with a
\* message containing 'within 24 hours' is complete, every session without
\* one is as it was, and the count returned is the number of sessions that
\* went from another status to 'complete'.
C27_AutoUpdateCompletesMarkedSessions ==
  [][resp'.op = "sync_completion"
     => /\ \A x \in sessions' :
             HasBookingUrl(MessagesOf(msgs', x.session_id))
               => x.completion_status = "complete"
        /\ \A s \in sessions :
             ~HasBookingUrl(MessagesOf(msgs, s.session_id)) => s \in sessions'
        /\ resp'.info[1] =
             Cardinality({s \in sessions :
                            /\ s.completion_status # "complete"
                            /\ \E x \in sessions' :
                                 x.id = s.id /\ x.completion_status = "complete"})
        /\ msgs' = msgs]_vars

\* a sweep that completed one session and returned 1, beside a session in
\* progress whose messages do not carry the marker
C27_Witness ==
  /\ resp.op = "sync_completion" /\ resp.info[1] = 1
  /\ \E x \in sessions :
       /\ x.completion_status = "complete"
       /\ HasBookingUrl(MessagesOf(msgs, x.session_id))
  /\ \E y \in sessions :
       /\ y.completion_status = "in_progress"
       /\ ~HasBookingUrl(MessagesOf(msgs, y.session_id))

C29_TrueOnlyWhenSaved ==
  resp.op = "extract"
    => /\ resp.info[1] => ~resp.info[5]
       /\ (\/ resp.info[2] = 0
           \/ ~resp.info[4]
           \/ IsEmptyObject(resp.info[3])
           \/ resp.info[5]) => ~resp.info[1]

\* the sessions the cleanup is to pick: a last message inside the 24 hours
\* before now, a lead with a placeholder name or with neither company nor
\* email, and more than one message
NeedsProcessing(sid) ==
  /\ \E x \in sessions : x.session_id = sid /\ x.last_message_time >= now - 24
  /\ leads[sid] # <<>>
  /\ LET lead == Head(leads[sid])
     IN \/ lead.full_name \in {NULL, "", "Unknown", "Web Chat User"}
        \/ (lead.company_name \in {NULL, ""} /\ lead.email \in {NULL, ""})
  /\ Len(SelectSeq(msgs, LAMBDA r : r.session_id = sid)) > 1

\* C30: process_missed_sessions picks the sessions that need processing,
\* never attempts a session twice, has attempted each picked session once
\* and no other session when it ends, whatever the attempts returned, and
\* it ends.
C30_CleanupAttemptsEachSessionOnce ==
  /\ [][(cleanup.pc = "idle" /\ cleanup'.pc # "idle")
        => cleanup'.found = {sid \in SessionIds : NeedsProcessing(sid)}]_vars
  /\ [](\A sid \in SessionIds : cleanup.attempts[sid] <= 1)
  /\ [](cleanup.pc = "done"
        => \A sid \in SessionIds :
             cleanup.attempts[sid] = IF sid \in cleanup.found THEN 1 ELSE 0)
  /\ <>(cleanup.pc = "done")

\* a finished run over two sessions, of which one extraction returned False
\* and the other True
C30_Witness ==
  /\ cleanup.pc = "done"
  /\ cleanup.found = SessionIds
  /\ \E a \in SessionIds, b \in SessionIds :
       /\ cleanup.results[a] = "False" /\ cleanup.attempts[a] = 1
       /\ cleanup.results[b] = "True" /\ cleanup.attempts[b] = 1

\* ---------------------------------------------------------- specifications
\* The completion status of one session: chat messages from the widget and
\* from the workflow, the passing of time, and the sync functions.
Next ==
  \/ Tick
  \/ \E message \in Messages, user_type \in Roles :
       HandleChatMessage("abc-123", message, user_type, "", "", "", "web_chat")
  \/ \E message \in Messages \ {""}, user_type \in Roles :
       WorkflowInsert("abc-123", message, user_type)
  \/ SyncSingleMessengerSession("abc-123")
  \/ SyncCompletionStatusEndpoint
  \/ SyncOrphanedSessionsEndpoint

Spec == Init /\ [][Next]_vars

\* The lead table: every handler that writes a lead row.
NextLead ==
  \/ \E session_id \in {"abc-123"}, name \in {<<"", "">>, <<"John", "Smith">>},
        contact_id \in {"", "john@x.com", "0412"} :
       \E message \in {"", "hello"} :
         HandleChatMessage(session_id, message, "user", name[1], name[2],
                           contact_id, "web_chat")
  \/ \E session_id \in {"abc-123"} : WorkflowInsert(session_id, "hello", "user")
  \/ \E session_id \in {"abc-123"} : SyncSingleMessengerSession(session_id)
  \/ \E session_id \in {"abc-123"}, data \in LeadObjects :
       UpsertLead(session_id, Headers("secret", NULL), "secret", data)
  \/ \E session_id \in {"abc-123"}, ai_ok \in BOOLEAN, ai_result \in LeadObjects,
        save_ok \in BOOLEAN :
       ProcessSessionForLeadExtraction(session_id, ai_ok, ai_result, save_ok)
  \/ \E session_id \in {"abc-123"}, name \in {"", "Jane Doe"},
        email \in {"", "jane@x.com"}, completed \in BOOLEAN :
       HandleWebhookDelivery(session_id, name, email, completed, NULL, "200")

SpecLead == Init /\ [][NextLead]_vars

\* Deleting sessions: sessions of both kinds are created, named and deleted.
NextDelete ==
  \/ \E session_id \in SessionIds, name \in {<<"", "">>, <<"John", "Smith">>},
        session_source \in Sources :
       HandleChatMessage(session_id, "hello", "user", name[1], name[2], "",
                         session_source)
  \/ \E pk \in 1..MaxPk, user \in {NoUser, "alex"} : DeleteTestingSession(pk, user)
  \/ VerifyDeletion

SpecDelete == Init /\ [][NextDelete]_vars

\* QA review of one session.
NextQa ==
  \/ HandleChatMessage("abc-123", "hello", "user", "", "", "", "web_chat")
  \/ \E pk \in 1..2, user \in Users \cup {NoUser},
        qa_status \in {Absent, "passed", "issue"},
        qa_notes \in {Absent, "wrong answer"},
        dev_feedback \in {Absent, "patched"},
        mark_fixed \in {Absent, "true"} :
       UpdateMessengerSessionQa(pk, user,
           QaObject(qa_status, qa_notes, dev_feedback, mark_fixed))

SpecQa == Init /\ [][NextQa]_vars

\* Listing: a table of up to MaxRows sessions, every third one flagged by QA.
InitPage ==
  /\ \E T \in 0..MaxRows :
       sessions = {[NewSession(i, ToString(i), 0, 1, "messenger", FALSE,
                               "incomplete")
                     EXCEPT !.qa_status = IF i % 3 = 0 THEN "issue" ELSE @]
                   : i \in 1..T}
  /\ msgs = <<>>
  /\ leads = [s \in SessionIds |-> <<>>]
  /\ nextId = MaxRows + 1
  /\ now = 0
  /\ completion_notifications = <<>>
  /\ pendingDelete = NoDelete
  /\ errors = <<>>
  /\ polls = [p \in Pollers |-> IdlePoll]
  /\ appended = <<>>
  /\ txns = [t \in Workers |-> IdleTxn]
  /\ cleanup = IdleCleanup
  /\ resp = NoResp

NextPage ==
  \E page \in 1..MaxPage, per_page \in 1..MaxPerPage,
     qa_status \in {Absent, "issue"} :
    GetMessengerSessions(page, per_page, Absent, qa_status)

SpecPage == InitPage /\ [][NextPage]_vars

\* Listing with filters: the first pages of the same table, asked for with
\* and without a status filter and a qa_status filter.
NextFilter ==
  \E page \in 1..2, status \in {Absent, "active", "resolved"},
     qa_status \in {Absent, "issue", "passed"} :
    GetMessengerSessions(page, MaxPerPage, status, qa_status)

SpecFilter == InitPage /\ [][NextFilter]_vars

\* Completion notifications: the workflow creates a session and sends AI
\* messages to it while the dashboard threads poll for notifications.
NextNotify ==
  \/ Tick
  \/ CreateMessengerSession(Headers("secret", NULL), "secret", "abc-123")
  \/ \E message \in Messages \ {""} :
       HandleChatMessage("abc-123", message, "ai", "", "", "", "messenger")
  \/ \E p \in Pollers : GetCompletionNotificationsCopy(p)
  \/ \E p \in Pollers : GetCompletionNotificationsClear(p)

SpecNotify == Init /\ [][NextNotify]_vars

\* Concurrent requests for one session id: the workflow stores a message,
\* and the chat widget, the sync functions and the lead API run in threads.
NextRace ==
  \/ WorkflowInsert("abc-123", "hello", "user")
  \/ \E t \in Workers : HandleChatMessageRead(t, "abc-123")
  \/ \E t \in Workers : EnsureMessengerSessionRead(t, "abc-123")
  \/ \E t \in Workers : UpsertLeadRead(t, "abc-123")
  \/ \E t \in Workers : RequestReadLead(t)
  \/ \E t \in Workers : RequestCommit(t)

SpecRace == Init /\ [][NextRace]_vars

\* Who writes the review fields: one session, reviewed and edited by
\* anonymous callers and by users of every role.
NextRoles ==
  \/ HandleChatMessage("abc-123", "hello", "user", "", "", "", "web_chat")
  \/ \E user \in Users \cup {NoUser},
        qa_status \in {Absent, "issue", "fixed"},
        dev_feedback \in {Absent, "patched"},
        mark_fixed \in {Absent, "true"} :
       \/ UpdateMessengerSessionQa(1, user,
              QaObject(qa_status, Absent, dev_feedback, mark_fixed))
       \/ UpdateMessengerSession(1, user,
              QaObject(qa_status, Absent, dev_feedback, mark_fixed))

SpecRoles == Init /\ [][NextRoles]_vars

\* The completion sweep over two sessions, with and without the marker.
NextAuto ==
  \/ Tick
  \/ \E session_id \in SessionIds, message \in Messages \ {""}, user_type \in Roles :
       HandleChatMessage(session_id, message, user_type, "", "", "", "web_chat")
  \/ SyncCompletionStatusEndpoint

SpecAuto == Init /\ [][NextAuto]_vars

\* The notification list near its cap: up to 50 notifications of a testing
\* session, sent in the hours before and not polled, are in the list; the
\* testing session was deleted since, and a new session gets AI messages.
InitCap ==
  /\ \E n \in 0..MaxNotifications :
       /\ completion_notifications =
            [i \in 1..n |-> [session_id |-> "Test_42", timestamp |-> i - n - 1]]
       /\ appended = completion_notifications
  /\ msgs = <<>>
  /\ sessions = {}
  /\ leads = [s \in SessionIds |-> <<>>]
  /\ nextId = 2
  /\ now = 0
  /\ pendingDelete = NoDelete
  /\ errors = <<>>
  /\ polls = [p \in Pollers |-> IdlePoll]
  /\ txns = [t \in Workers |-> IdleTxn]
  /\ cleanup = IdleCleanup
  /\ resp = NoResp

NextCap ==
  \/ Tick
  \/ CreateMessengerSession(Headers("secret", NULL), "secret", "abc-123")
  \/ \E message \in Messages \ {""} :
       HandleChatMessage("abc-123", message, "ai", "", "", "", "messenger")

SpecCap == InitCap /\ [][NextCap]_vars

\* The cleanup run over a database of two sessions.  Each session has no
\* row, or a row with one or two messages; its lead is missing, a
\* placeholder, a name without contact data, or a name with an email; its
\* last message is older than the cutoff, on the cutoff, or new.
CleanupNow == CleanupHours + TickHours

CleanupProfiles ==
  [n : 0..2, lead : {"none", "placeholder", "bare", "full"},
   last : {0, CleanupNow - CleanupHours, CleanupNow}]

ProfileMessages(sid, prof) ==
  [i \in 1..prof.n |-> [session_id |-> sid, dateTime |-> prof.last,
                        userAi |-> "user", messageStr |-> "hello"]]

ProfileLead(prof) ==
  IF prof.n = 0 \/ prof.lead = "none" THEN <<>>
  ELSE IF prof.lead = "placeholder"
  THEN <<[EmptyLead EXCEPT !.full_name = "Web Chat User"]>>
  ELSE IF prof.lead = "bare"
  THEN <<[EmptyLead EXCEPT !.full_name = "Jane Doe"]>>
  ELSE <<[EmptyLead EXCEPT !.full_name = "Jane Doe", !.email = "jane@x.com"]>>

InitCleanup ==
  /\ \E a \in CleanupProfiles, b \in CleanupProfiles :
       /\ msgs = ProfileMessages("abc-123", a) \o ProfileMessages("Test_42", b)
       /\ sessions =
            (IF a.n = 0 THEN {}
             ELSE {NewSession(1, "abc-123", a.last, a.n, "web_chat", FALSE,
                              "in_progress")})
            \cup
            (IF b.n = 0 THEN {}
             ELSE {NewSession(2, "Test_42", b.last, b.n, "web_chat", FALSE,
                              "in_progress")})
       /\ leads = [sid \in SessionIds |->
                     IF sid = "abc-123" THEN ProfileLead(a) ELSE ProfileLead(b)]
  /\ nextId = 3
  /\ now = CleanupNow
  /\ completion_notifications = <<>>
  /\ pendingDelete = NoDelete
  /\ errors = <<>>
  /\ polls = [p \in Pollers |-> IdlePoll]
  /\ appended = <<>>
  /\ txns = [t \in Workers |-> IdleTxn]
  /\ cleanup = IdleCleanup
  /\ resp = NoResp

\* one pass of the loop, with the outcomes the extraction can have
ProcessMissedSessionStep ==
  \E ai_ok \in BOOLEAN, save_ok \in BOOLEAN,
     ai_result \in {Object("Jane Doe", "Acme", "jane@x.com", Absent),
                    Object(Absent, Absent, Absent, Absent)} :
    ProcessMissedSession(ai_ok, ai_result, save_ok)

NextCleanup ==
  \/ FindSessionsNeedingProcessing
  \/ ProcessMissedSessionStep
  \/ HandleChatMessage("abc-123", "hello", "user", "John", "Smith", "", "web_chat")

SpecCleanup == InitCleanup /\ [][NextCleanup]_vars

\* the script runs to its end: it is started, and every pass of its loop
\* returns
SpecCleanupLive ==
  /\ SpecCleanup
  /\ WF_vars(FindSessionsNeedingProcessing)
  /\ WF_vars(ProcessMissedSessionStep)

\* The chat message table under every handler: messages of two sessions are
\* stored by the widget, synced, listed, reviewed and deleted as time passes.
NextLog ==
  \/ Tick
  \/ \E session_id \in SessionIds :
       HandleChatMessage(session_id, "hello", "user", "John", "Smith", "",
                         "messenger")
  \/ SyncSingleMessengerSession("abc-123")
  \/ SyncCompletionStatusEndpoint
  \/ SyncOrphanedSessionsEndpoint
  \/ GetMessengerSessions(1, 1, Absent, Absent)
  \/ UpsertLead("abc-123", Headers("secret", NULL), "secret",
                Object(Absent, Absent, Absent, "7"))
  \/ ProcessSessionForLeadExtraction("abc-123", FALSE,
                                     Object(Absent, Absent, Absent, Absent), TRUE)
  \/ HandleWebhookDelivery("abc-123", "", "", FALSE, NULL, "200")
  \/ UpdateMessengerSessionQa(1, "quinn", QaObject(Absent, "wrong answer", Absent, Absent))
  \/ \E pk \in 1..MaxPk : DeleteTestingSession(pk, "alex")
  \/ VerifyDeletion

SpecLog == Init /\ [][NextLog]_vars

\* Webhook delivery for one session, with and without a configured URL, the
\* POST answering 200, answering 500, or raising.
NextWebhook ==
  \/ \E session_id \in {"abc-123"}, user_type \in Roles :
       HandleChatMessage(session_id, "hello", user_type, "", "", "", "web_chat")
  \/ \E session_id \in {"", "abc-123"}, name \in {"", "Jane Doe"},
        email \in {"", "jane@x.com"}, completed \in BOOLEAN,
        webhook_url \in {NULL, "https://hooks.example/n8n"},
        outcome \in WebhookOutcomes :
       HandleWebhookDelivery(session_id, name, email, completed, webhook_url,
                             outcome)

SpecWebhook == Init /\ [][NextWebhook]_vars

\* The routes behind an API key, called with every combination of key
\* headers, with and without a key configured on the server.
KeyHeaders ==
  {Headers(x, a) : x \in {NULL, "secret", "wrong"},
                   a \in {NULL, "Bearer secret", "Bearer wrong"}}

NextKeys ==
  \/ WorkflowInsert("abc-123", "hello", "ai")
  \/ \E headers \in KeyHeaders, expected_key \in {NULL, "secret"} :
       \/ CreateMessengerSession(headers, expected_key, "Test_42")
       \/ SyncMessengerSessions(headers, expected_key)
       \/ CreateError(headers, expected_key, TRUE)
       \/ UpsertLead("abc-123", headers, expected_key,
                     Object("Jane Doe", Absent, Absent, Absent))

SpecKeys == Init /\ [][NextKeys]_vars
====
